---- MODULE Spec2Model ----
(***************************************************************************)
(* Stripe -> Frontegg webhook bridge.                                      *)
(*                                                                         *)
(* Two handler variants, one for 'subscription_schedule.created' and one   *)
(* for 'checkout.session.completed', share one client module,              *)
(* _lib/frontegg.js.                                                       *)
(* An invocation is a sequence of steps separated by the handler's awaits; *)
(* every outbound call is one step, whose outcome the remote side chooses. *)
(***************************************************************************)
EXTENDS Integers, Sequences, FiniteSets, TLC

(***************************************************************************)
(* Bounds                                                                  *)
(***************************************************************************)
NProc == 2
MaxDeliveries == 3

Procs == 1..NProc

(***************************************************************************)
(* JavaScript values: a tag followed by the value, so that values of       *)
(* different JS types can meet in one variable (as they do when the        *)
(* checkout variant shifts the arguments of createEntitlement).            *)
(***************************************************************************)
Undefined == <<"undefined">>
Num(n) == <<"number", n>>
Str(s) == <<"string", s>>
Chars(cs) == <<"chars", cs>>
Obj(r) == <<"object", r>>
Arr(s) == <<"array", s>>
Tag(v) == v[1]
Val(v) == v[2]

\* JS truthiness, as used by !x and x || y
Truthy(v) ==
  CASE Tag(v) = "undefined" -> FALSE
    [] Tag(v) = "number" -> Val(v) # 0
    [] Tag(v) = "string" -> Val(v) # ""
    [] Tag(v) = "chars" -> Len(Val(v)) > 0
    [] OTHER -> TRUE

\* a property read x.f throws a TypeError unless x is an object
IsObject(v) == Tag(v) = "object"

\* o.f of an object o: undefined when o has no property f
Prop(o, f) == IF f \in DOMAIN Val(o) THEN Val(o)[f] ELSE Undefined

(***************************************************************************)
(* new Date(seconds * 1000).toISOString()                                  *)
(***************************************************************************)
MsPerDay == 86400000

\* Gregorian date of a day number counted from 1970-01-01
CivilFromDays(days) ==
  LET z == days + 719468
      era == z \div 146097
      doe == z - era * 146097
      yoe == (doe - doe \div 1460 + doe \div 36524 - doe \div 146096) \div 365
      doy == doe - (365 * yoe + yoe \div 4 - yoe \div 100)
      mp == (5 * doy + 2) \div 153
      d == doy - (153 * mp + 2) \div 5 + 1
      m == IF mp < 10 THEN mp + 3 ELSE mp - 9
      y == yoe + era * 400 + (IF m <= 2 THEN 1 ELSE 0)
  IN <<y, m, d>>

\* "YYYY-MM-DDTHH:mm:ss.sssZ" as its fields
ToISOString(ms) ==
  LET date == CivilFromDays(ms \div MsPerDay)
      rest == ms % MsPerDay
  IN <<"iso", date[1], date[2], date[3],
       rest \div 3600000, (rest \div 60000) % 60, (rest \div 1000) % 60, rest % 1000>>

\* new Date(ts * 1000).toISOString(): a RangeError when ts * 1000 is NaN
DateThrows(ts) == Tag(ts) # "number"
ValidUntil(ts) == ToISOString(Val(ts) * 1000)

(***************************************************************************)
(* Plan tables                                                             *)
(***************************************************************************)
PriceSchedule == Str("price_1SMf0eS4gem0F368v4m5Ty7k")
PriceCheckout1 == Str("price_YOUR_STRIPE_PRICE_ID_1")
PriceCheckout2 == Str("price_YOUR_STRIPE_PRICE_ID_2")
PriceUnknown == Str("price_not_in_any_table")

PLAN_MAP_Schedule ==
  [p \in {PriceSchedule} |-> Str("f5fec7df-c09f-40c7-a68e-6905f7ec9574")]

PLAN_MAP_Checkout ==
  [p \in {PriceCheckout1, PriceCheckout2} |->
     IF p = PriceCheckout1 THEN Str("frontegg-feature-id-for-plan-1")
                           ELSE Str("frontegg-feature-id-for-plan-2")]

PLAN_MAP(variant) ==
  IF variant = "schedule" THEN PLAN_MAP_Schedule ELSE PLAN_MAP_Checkout

\* PLAN_MAP[stripePriceId]: undefined for a key the table does not have
PlanLookup(variant, priceId) ==
  IF priceId \in DOMAIN PLAN_MAP(variant) THEN PLAN_MAP(variant)[priceId]
                                           ELSE Undefined

HandledType(variant) ==
  IF variant = "schedule" THEN "subscription_schedule.created"
                          ELSE "checkout.session.completed"

(***************************************************************************)
(* Requests the transport can hand to a handler                            *)
(***************************************************************************)
EmailA == Chars(<<"a", "@", "x", ".", "c", "o", "m">>)
EmailB == Chars(<<"b", "@", "x", ".", "c", "o", "m">>)
Emails == {EmailA, EmailB}
Names == {Undefined, Str("Ann")}

TCancelAt == Num(172800)
TCanceledAt == Num(345600)
TPhaseEnd == Num(259200)
TPeriodEnd == Num(864000)

Schedule(phases, cancel_at, canceled_at, current_period_end) ==
  [type |-> "subscription_schedule.created",
   object |-> Obj([customer |-> Str("cus_1"),
                   phases |-> phases,
                   cancel_at |-> cancel_at,
                   canceled_at |-> canceled_at,
                   current_period_end |-> current_period_end,
                   current_phase |-> Obj([end_date |-> TPhaseEnd])])]

OnePhase(price) == Arr(<<Obj([items |-> Arr(<<Obj([price |-> price])>>)])>>)

\* schedules without phases or items
BrokenPhases ==
  {Undefined, Arr(<<>>),
   Arr(<<Obj([items |-> Undefined])>>),
   Arr(<<Obj([items |-> Arr(<<>>)])>>)}

ScheduleEvents ==
  {Schedule(OnePhase(PriceSchedule), ca, cd, pe) :
     ca \in {Undefined, TCancelAt}, cd \in {Undefined, TCanceledAt},
     pe \in {Undefined, TPeriodEnd}}
  \cup {Schedule(OnePhase(PriceUnknown), Undefined, Undefined, pe) :
          pe \in {Undefined, TPeriodEnd}}
  \cup {Schedule(ph, Undefined, Undefined, TPeriodEnd) : ph \in BrokenPhases}

Session(customer_details, line_items) ==
  [type |-> "checkout.session.completed",
   object |-> Obj([customer_details |-> customer_details,
                   line_items |-> line_items,
                   subscription |-> Str("sub_1")])]

CustomerDetailsOptions ==
  {Undefined} \cup {Obj([email |-> e, name |-> n]) :
                      e \in Emails \cup {Undefined}, n \in Names}

OneLineItem(price) == Obj([data |-> Arr(<<Obj([price |-> Obj([id |-> price])])>>)])

\* sessions without line items
BrokenLineItems == {Undefined, Obj([data |-> Arr(<<>>)])}

SessionEvents ==
  {Session(cd, OneLineItem(p)) :
     cd \in CustomerDetailsOptions, p \in {PriceCheckout1, PriceUnknown}}
  \cup {Session(cd, li) :
          cd \in {Undefined, Obj([email |-> EmailA, name |-> Str("Ann")])},
          li \in BrokenLineItems}

OtherEvents == {[type |-> "invoice.paid", object |-> Obj([id |-> Str("in_1")])]}

Events == ScheduleEvents \cup SessionEvents \cup OtherEvents

\* one event of each type, for the requests that are refused before the
\* event is looked at
SampleEvents ==
  {Schedule(OnePhase(PriceSchedule), Undefined, Undefined, TPeriodEnd),
   Session(Obj([email |-> EmailA, name |-> Str("Ann")]), OneLineItem(PriceCheckout1))}
  \cup OtherEvents

\* sigValid: whether stripe.webhooks.constructEvent accepts (body, header, secret)
Requests ==
  [method : {"POST"}, sigValid : {TRUE},
   variant : {"schedule", "checkout"}, event : Events]
  \cup [method : {"POST"}, sigValid : {FALSE},
        variant : {"schedule", "checkout"}, event : SampleEvents]
  \cup [method : {"GET"}, sigValid : BOOLEAN,
        variant : {"schedule", "checkout"}, event : SampleEvents]

\* what stripe.customers.retrieve / stripe.subscriptions.retrieve resolve to
Customers ==
  {Obj([email |-> e, name |-> n]) : e \in Emails \cup {Undefined}, n \in Names}
  \cup {Obj([email |-> EmailA, name |-> Str("")])}
Subscriptions == {Obj([current_period_end |-> pe]) : pe \in {Undefined, TPeriodEnd}}

(***************************************************************************)
(* State                                                                   *)
(***************************************************************************)
VARIABLES
  pc,            \* pc[i]: where invocation i of handler stands
  req,           \* req[i]: the request it was given
  loc,           \* loc[i]: the handler's local variables
  calls,         \* calls[i]: the calls it has made, in order
  resp,          \* resp[i]: the responses it has sent on res
  users,         \* identity provider: users
  tenants,       \* identity provider: accounts, in order of creation
  entitlements,  \* identity provider: entitlements
  tokens,        \* identity provider: number of vendor tokens issued
  now,           \* Date.now()
  deliveries     \* number of requests delivered so far

vars == <<pc, req, loc, calls, resp, users, tenants, entitlements, tokens, now, deliveries>>
world == <<users, tenants, entitlements, tokens>>

NoLocals ==
  [email |-> Undefined, name |-> Undefined, stripePriceId |-> Undefined,
   validUntil |-> Undefined, fronteggFeatureId |-> Undefined, token |-> Undefined,
   userId |-> Undefined, tenantId |-> Undefined]

NoRequest ==
  [method |-> "GET", sigValid |-> FALSE, variant |-> "schedule",
   event |-> CHOOSE e \in OtherEvents : TRUE]

ExistingUser ==
  [id |-> <<"uid", 0>>, tenantId |-> <<"tenant", <<"o", "l", "d">>, 0>>, email |-> EmailB]

Init ==
  /\ pc = [i \in Procs |-> "idle"]
  /\ req = [i \in Procs |-> NoRequest]
  /\ loc = [i \in Procs |-> NoLocals]
  /\ calls = [i \in Procs |-> <<>>]
  /\ resp = [i \in Procs |-> <<>>]
  /\ users = {ExistingUser}
  /\ tenants = <<>>
  /\ entitlements = {}
  /\ tokens = 0
  /\ now = 1
  /\ deliveries = 0

(***************************************************************************)
(* res.status(s).json(b) / res.status(s).send(t)                           *)
(***************************************************************************)
Json(b) == <<"json", b>>
Text(t) == <<"text", t>>
Response(status, body) == [status |-> status, body |-> body]

Received == Json([received |-> TRUE])
ReceivedError(reason) == Json([received |-> TRUE, error |-> reason])
SyncFailed == Json([error |-> "Failed to sync with Frontegg"])

\* a call the handler made: what was sent, how it ended, what came back
Call(op, args, result, data) == [op |-> op, args |-> args, result |-> result, data |-> data]

\* the handler returns after sending a response
Finish(i, r) ==
  /\ resp' = [resp EXCEPT ![i] = Append(@, r)]
  /\ pc' = [pc EXCEPT ![i] = "done"]

\* an exception leaves the handler: nothing is sent on res
Fault(i) ==
  /\ pc' = [pc EXCEPT ![i] = "fault"]
  /\ UNCHANGED resp

Goto(i, label) ==
  /\ pc' = [pc EXCEPT ![i] = label]
  /\ UNCHANGED resp

\* the request sent a second time
Log_Twice(i, c) == calls' = [calls EXCEPT ![i] = Append(Append(@, c), c)]

Log(i, c) == calls' = [calls EXCEPT ![i] = Append(@, c)]

Running(i) == pc[i] \notin {"idle", "done", "fault"}

(***************************************************************************)
(* The transport invokes handler(req, res).  Deliveries are sequential:    *)
(* the sender delivers, or redelivers, after the previous response.        *)
(***************************************************************************)
Deliver(i, r) ==
  /\ deliveries < MaxDeliveries
  /\ ~Running(i)
  /\ \A j \in Procs \ {i} : pc[j] = "idle"
  /\ pc' = [pc EXCEPT ![i] = "start"]
  /\ req' = [req EXCEPT ![i] = r]
  /\ loc' = [loc EXCEPT ![i] = NoLocals]
  /\ calls' = [calls EXCEPT ![i] = <<>>]
  /\ resp' = [resp EXCEPT ![i] = <<>>]
  /\ now' = now + 1
  /\ deliveries' = deliveries + 1
  /\ UNCHANGED world

\* the method check left out
MethodRefused_Never(r) == FALSE

\* req.method !== 'POST'
MethodRefused(r) == r.method # "POST"

\* method check, then await buffer(req)
Receive(i) ==
  /\ pc[i] = "start"
  /\ IF MethodRefused(req[i])
       THEN /\ Finish(i, Response(405, Text("Method Not Allowed")))
            /\ UNCHANGED calls
       ELSE /\ Log(i, Call("buffer", Undefined, "ok", Undefined))
            /\ Goto(i, "verify")
  /\ UNCHANGED <<req, loc, world, now, deliveries>>

\* the catch around constructEvent does not return
SignatureRejected_Never(r) == FALSE

\* constructEvent throws
SignatureRejected(r) == ~r.sigValid

\* text of the 400 response
SignatureErrorBody(variant) ==
  IF variant = "schedule"
    THEN Text("Webhook Error: Signature verification failed")
    ELSE Text("Webhook Error: ${err.message}")

\* session.customer_details.email, .name and session.line_items.data[0].price.id:
\* does reading them throw a TypeError
SessionReadThrows(session) ==
  \/ ~IsObject(session.customer_details)
  \/ ~IsObject(session.line_items)
  \/ Len(Val(Val(session.line_items).data)) = 0

\* the schedule variant takes every event for a schedule
IsHandled_AnyType(r) == r.variant = "schedule" \/ r.event.type = HandledType(r.variant)

\* event.type === 'subscription_schedule.created' / 'checkout.session.completed'
IsHandled(r) == r.event.type = HandledType(r.variant)

\* constructEvent, the event-type test and, in the checkout variant, the
\* reads of the session that precede the subscription retrieval
VerifyEvent(i) ==
  LET r == req[i]
      object == Val(r.event.object)
  IN
  /\ pc[i] = "verify"
  /\ Log(i, Call("constructEvent", Undefined, IF SignatureRejected(r) THEN "throw" ELSE "ok", Undefined))
  /\ IF SignatureRejected(r)
       THEN /\ Finish(i, Response(400, SignatureErrorBody(r.variant)))
            /\ UNCHANGED loc
     ELSE IF ~IsHandled(r)
       THEN /\ Finish(i, Response(200, Received))
            /\ UNCHANGED loc
     ELSE IF r.variant = "schedule"
       THEN /\ Goto(i, "retrieveCustomer")
            /\ UNCHANGED loc
     ELSE IF SessionReadThrows(object)
       THEN /\ Fault(i)
            /\ UNCHANGED loc
     ELSE /\ loc' = [loc EXCEPT ![i].email = Val(object.customer_details).email,
                                ![i].name = Val(object.customer_details).name,
                                ![i].stripePriceId =
                                   Val(Val(Val(Val(object.line_items).data)[1]).price).id]
          /\ Goto(i, "retrieveSubscription")
  /\ UNCHANGED <<req, world, now, deliveries>>

(***************************************************************************)
(* Payments-provider retrievals and the extraction that follows them       *)
(***************************************************************************)
\* the acknowledgement the schedule variant sends when a field is missing,
\* or "" when extraction and plan resolution pass
ScheduleGap(schedule, customer) ==
  LET phases == schedule.phases
      firstPhase == Val(Val(phases)[1])
      items == firstPhase.items
      stripePriceId == Val(Val(items)[1]).price
  IN
  IF ~Truthy(phases) \/ Len(Val(phases)) = 0 THEN "No phases found"
  ELSE IF ~Truthy(items) \/ Len(Val(items)) = 0 THEN "No items found in phase"
  ELSE IF ~Truthy(schedule.current_period_end) THEN "No expiration date found"
  ELSE IF ~Truthy(PlanLookup("schedule", stripePriceId)) THEN "Internal mapping error"
  ELSE IF ~Truthy(customer.email) THEN "No email provided"
  ELSE ""

\* expiryTimestamp of the schedule variant
ScheduleExpiry(schedule) == schedule.current_period_end

\* stripe.customers.retrieve resolves to customer, or rejects
RetrieveCustomer(i, ok, customer) ==
  LET schedule == Val(req[i].event.object)
      gap == ScheduleGap(schedule, Val(customer))
      stripePriceId == Val(Val(Val(Val(schedule.phases)[1]).items)[1]).price
  IN
  /\ pc[i] = "retrieveCustomer"
  /\ Log(i, Call("customers.retrieve", schedule.customer, IF ok THEN "ok" ELSE "throw", customer))
  /\ IF ~ok
       THEN /\ Fault(i)
            /\ UNCHANGED loc
     ELSE IF gap # ""
       THEN /\ Finish(i, Response(200, ReceivedError(gap)))
            /\ UNCHANGED loc
     ELSE /\ loc' = [loc EXCEPT ![i].email = Val(customer).email,
                                ![i].name = Val(customer).name,
                                ![i].stripePriceId = stripePriceId,
                                ![i].validUntil = ValidUntil(ScheduleExpiry(schedule)),
                                ![i].fronteggFeatureId = PlanLookup("schedule", stripePriceId)]
          /\ Goto(i, "auth")
  /\ UNCHANGED <<req, world, now, deliveries>>

\* stripe.subscriptions.retrieve resolves to subscription, or rejects
RetrieveSubscription(i, ok, subscription) ==
  LET session == Val(req[i].event.object)
      expiryTimestamp == Val(subscription).current_period_end
      fronteggFeatureId == PlanLookup("checkout", loc[i].stripePriceId)
  IN
  /\ pc[i] = "retrieveSubscription"
  /\ Log(i, Call("subscriptions.retrieve", session.subscription, IF ok THEN "ok" ELSE "throw", subscription))
  /\ IF ~ok \/ DateThrows(expiryTimestamp)
       THEN /\ Fault(i)
            /\ UNCHANGED loc
     ELSE IF ~Truthy(fronteggFeatureId)
       THEN /\ Finish(i, Response(200, ReceivedError("Internal mapping error")))
            /\ UNCHANGED loc
     ELSE IF ~Truthy(loc[i].email)
       THEN /\ Finish(i, Response(200, ReceivedError("No email provided")))
            /\ UNCHANGED loc
     ELSE /\ loc' = [loc EXCEPT ![i].validUntil = ValidUntil(expiryTimestamp),
                                ![i].fronteggFeatureId = fronteggFeatureId]
          /\ Goto(i, "auth")
  /\ UNCHANGED <<req, world, now, deliveries>>

(***************************************************************************)
(* _lib/frontegg.js: the requests the client builds                        *)
(***************************************************************************)
AlphaNumeric ==
  {"a", "b", "c", "d", "e", "f", "g", "h", "i", "j", "k", "l", "m",
   "n", "o", "p", "q", "r", "s", "t", "u", "v", "w", "x", "y", "z",
   "A", "B", "C", "D", "E", "F", "G", "H", "I", "J", "K", "L", "M",
   "N", "O", "P", "Q", "R", "S", "T", "U", "V", "W", "X", "Y", "Z",
   "0", "1", "2", "3", "4", "5", "6", "7", "8", "9"}

\* email.replace(/[^a-zA-Z0-9]/g, '_')
Sanitize(cs) == [k \in 1..Len(cs) |-> IF cs[k] \in AlphaNumeric THEN cs[k] ELSE "_"]

\* the tenantId made of the email alone
NewTenantId_EmailOnly(email, t) == <<"tenant", Sanitize(Val(email))>>

\* `tenant_${...}_${Date.now()}`
NewTenantId(email, t) == <<"tenant", Sanitize(Val(email)), t>>

GetUserRequest(email, token) == [email |-> email, bearer |-> token]

CreateAccountRequest(email, token, t) ==
  [payload |-> [tenantId |-> NewTenantId(email, t),
                name |-> <<"name", Val(email), "'s Account">>],
   bearer |-> token]

DefaultRoleId == "c432dbc9-49f3-4fb3-afe1-a4b354e4e369"

\* the name sent as it came, no placeholder
CreateUserRequest_NoFallback(email, name, tenantId, token) ==
  [payload |-> [email |-> email,
                name |-> name,
                roleIds |-> <<DefaultRoleId>>,
                provider |-> "local",
                skipInviteEmail |-> FALSE],
   bearer |-> token,
   tenantHeader |-> tenantId]

CreateUserRequest(email, name, tenantId, token) ==
  [payload |-> [email |-> email,
                name |-> IF Truthy(name) THEN name ELSE Str("New User"),
                roleIds |-> <<DefaultRoleId>>,
                provider |-> "local",
                skipInviteEmail |-> FALSE],
   bearer |-> token,
   tenantHeader |-> tenantId]

CreateEntitlementRequest(tenantId, userId, planId, expirationDate, token) ==
  [payload |-> [planId |-> planId, tenantId |-> tenantId, userId |-> userId,
                expirationDate |-> expirationDate],
   bearer |-> token]

\* the arguments each variant passes to createEntitlement, a missing one
\* being undefined
EntitlementCall(variant, l) ==
  IF variant = "schedule"
    THEN CreateEntitlementRequest(l.tenantId, l.userId, l.fronteggFeatureId,
                                  l.validUntil, l.token)
    ELSE CreateEntitlementRequest(l.tenantId, l.fronteggFeatureId, l.validUntil,
                                  l.token, Undefined)

\* the identity provider accepts a bearer token it has issued
Authorized(bearer) == Tag(bearer) = "token" /\ Val(bearer) \in 1..tokens

\* any lookup failure taken for not-found
IsNotFound_AnyError(outcome) == outcome # "return"

\* error.response && error.response.status === 404
IsNotFound(outcome) == outcome = "404"

\* every failure of the GET rethrown as it came
GetUserByEmail_RethrowsAll(outcome) ==
  IF outcome = "200" THEN "return" ELSE "404"

\* what getUserByEmail does with the outcome of its GET: return the data,
\* rethrow the 404, or throw a new Error that carries no response
GetUserByEmail(outcome) ==
  IF outcome = "200" THEN "return"
  ELSE IF outcome = "404" THEN "404"
  ELSE "Error looking up user"

(***************************************************************************)
(* The Frontegg flow of the handler                                        *)
(***************************************************************************)
\* the catch around the flow falls through to the acknowledgement
SyncFailure_Acknowledges(i) == Finish(i, Response(200, Received))

\* the catch around the flow: log and answer 500
SyncFailure(i) == Finish(i, Response(500, SyncFailed))

\* the number of the token the identity provider answers with: a new one
\* for each of the first MaxDeliveries requests, the last one again after
NewTokenNumber == IF tokens < MaxDeliveries THEN tokens + 1 ELSE tokens

\* getFronteggToken()
Authenticate(i, ok) ==
  /\ pc[i] = "auth"
  /\ Log(i, Call("getFronteggToken", Undefined, IF ok THEN "ok" ELSE "throw",
                 IF ok THEN <<"token", NewTokenNumber>> ELSE Undefined))
  /\ IF ok
       THEN /\ tokens' = NewTokenNumber
            /\ loc' = [loc EXCEPT ![i].token = <<"token", NewTokenNumber>>]
            /\ Goto(i, "lookup")
       ELSE /\ SyncFailure(i)
            /\ UNCHANGED <<tokens, loc>>
  /\ UNCHANGED <<req, users, tenants, entitlements, now, deliveries>>

\* what the identity provider can answer to GET /identity/v1/users/email/{email}
LookupOutcomes(request) ==
  IF ~Authorized(request.bearer) THEN {"500"}
  ELSE {"500", "network"}
       \cup (IF \E u \in users : u.email = request.email THEN {"200"} ELSE {"404"})

\* the bodies a 200 can carry: a user record, or a record that lacks the
\* id and tenantId the handler reads
UserBodies ==
  users \cup {[email |-> u.email] : u \in users}

\* getUserByEmail(email, token) and the branch on its result
Lookup(i, outcome, u) ==
  LET request == GetUserRequest(loc[i].email, loc[i].token)
      result == GetUserByEmail(outcome)
  IN
  /\ pc[i] = "lookup"
  /\ outcome \in LookupOutcomes(request)
  /\ outcome = "200" => u.email = request.email
  /\ Log(i, Call("getUserByEmail", request, outcome, IF outcome = "200" THEN Obj(u) ELSE Undefined))
  /\ IF result = "return"
       THEN /\ loc' = [loc EXCEPT ![i].userId = Prop(Obj(u), "id"),
                                  ![i].tenantId = Prop(Obj(u), "tenantId")]
            /\ Goto(i, "entitle")
     ELSE IF IsNotFound(result)
       THEN /\ Goto(i, "createAccount")
            /\ UNCHANGED loc
     ELSE /\ SyncFailure(i)
          /\ UNCHANGED loc
  /\ UNCHANGED <<req, world, now, deliveries>>

\* the identity provider refuses a second account of the same name
AccountAccepted_OncePerName(request) ==
  /\ Authorized(request.bearer)
  /\ \A k \in DOMAIN tenants : tenants[k].name # request.payload.name

\* what POST /tenants/resources/tenants/v1 needs to succeed: the bearer; the
\* request carries no idempotency key and the tenantId is new with the clock
AccountAccepted(request) == Authorized(request.bearer)

\* the entitlement requested right after the account, before any user exists
AfterAccount_Entitlement == "entitle"

\* the statement that follows the awaited createFronteggAccount
AfterAccount == "createUser"

\* createFronteggAccount(email, token)
CreateAccount(i, ok) ==
  LET request == CreateAccountRequest(loc[i].email, loc[i].token, now)
  IN
  /\ pc[i] = "createAccount"
  /\ ok => AccountAccepted(request)
  /\ Log(i, Call("createFronteggAccount", request, IF ok THEN "ok" ELSE "throw",
                 IF ok THEN Obj(request.payload) ELSE Undefined))
  /\ IF ok
       THEN /\ tenants' = Append(tenants, request.payload)
            /\ loc' = [loc EXCEPT ![i].tenantId = request.payload.tenantId]
            /\ Goto(i, AfterAccount)
       ELSE /\ SyncFailure(i)
            /\ UNCHANGED <<tenants, loc>>
  /\ UNCHANGED <<req, users, entitlements, tokens, now, deliveries>>

\* the id the identity provider gives a new user
NewUserId == <<"uid", Cardinality(users)>>

\* createFronteggUser(email, name, tenantId, token)
CreateUser(i, ok) ==
  LET request == CreateUserRequest(loc[i].email, loc[i].name, loc[i].tenantId, loc[i].token)
  IN
  /\ pc[i] = "createUser"
  /\ ok => Authorized(request.bearer)
  /\ Log(i, Call("createFronteggUser", request, IF ok THEN "ok" ELSE "throw",
                 IF ok THEN Obj([id |-> NewUserId]) ELSE Undefined))
  /\ IF ok
       THEN /\ users' = users \cup {[id |-> NewUserId,
                                     tenantId |-> request.tenantHeader,
                                     email |-> request.payload.email]}
            /\ loc' = [loc EXCEPT ![i].userId = NewUserId]
            /\ Goto(i, "entitle")
       ELSE /\ SyncFailure(i)
            /\ UNCHANGED <<users, loc>>
  /\ UNCHANGED <<req, tenants, entitlements, tokens, now, deliveries>>

\* createEntitlement(...) and the acknowledgement that ends the handler
Entitle(i, ok) ==
  LET request == EntitlementCall(req[i].variant, loc[i])
  IN
  /\ pc[i] = "entitle"
  /\ ok => Authorized(request.bearer)
  /\ Log(i, Call("createEntitlement", request, IF ok THEN "ok" ELSE "throw", Undefined))
  /\ IF ok
       THEN /\ entitlements' = entitlements \cup {request.payload}
            /\ Finish(i, Response(200, Received))
       ELSE /\ SyncFailure(i)
            /\ UNCHANGED entitlements
  /\ UNCHANGED <<req, loc, users, tenants, tokens, now, deliveries>>

(***************************************************************************)
(* Specification                                                           *)
(***************************************************************************)
Next ==
  \/ \E i \in Procs, r \in Requests : Deliver(i, r)
  \/ \E i \in Procs : Receive(i)
  \/ \E i \in Procs : VerifyEvent(i)
  \/ \E i \in Procs, c \in Customers : RetrieveCustomer(i, TRUE, c)
  \/ \E i \in Procs : RetrieveCustomer(i, FALSE, Undefined)
  \/ \E i \in Procs, s \in Subscriptions : RetrieveSubscription(i, TRUE, s)
  \/ \E i \in Procs : RetrieveSubscription(i, FALSE, Undefined)
  \/ \E i \in Procs, ok \in BOOLEAN : Authenticate(i, ok)
  \/ \E i \in Procs, o \in {"200", "404", "500", "network"}, u \in UserBodies : Lookup(i, o, u)
  \/ \E i \in Procs, ok \in BOOLEAN : CreateAccount(i, ok)
  \/ \E i \in Procs, ok \in BOOLEAN : CreateUser(i, ok)
  \/ \E i \in Procs, ok \in BOOLEAN : Entitle(i, ok)

Spec == Init /\ [][Next]_vars

(***************************************************************************)
(* Vocabulary of the properties                                            *)
(***************************************************************************)
IdentityOps ==
  {"getFronteggToken", "getUserByEmail", "createFronteggAccount",
   "createFronteggUser", "createEntitlement"}
RetrievalOps == {"customers.retrieve", "subscriptions.retrieve"}

Ended(i) == pc[i] \in {"done", "fault"}
Started(i) == pc[i] # "idle"

\* positions in the log of invocation i at which op was called
CallsOf(i, op) == {k \in DOMAIN calls[i] : calls[i][k].op = op}
Made(i, ops) == \E k \in DOMAIN calls[i] : calls[i][k].op \in ops

\* the one response of an ended invocation
Answered(i, status, body) ==
  /\ pc[i] = "done"
  /\ resp[i] = <<Response(status, body)>>

ValidPost(i) == Started(i) /\ req[i].method = "POST" /\ req[i].sigValid
Handled(i) == ValidPost(i) /\ req[i].event.type = HandledType(req[i].variant)

\* the lookup of invocation i returned a user / signalled not-found
LookupFound(i) ==
  \E k \in CallsOf(i, "getUserByEmail") :
    calls[i][k].result = "200" /\ DOMAIN Val(calls[i][k].data) = {"id", "tenantId", "email"}
LookupNotFound(i) == \E k \in CallsOf(i, "getUserByEmail") : calls[i][k].result = "404"

\* C1: a POST whose signature verification fails is answered 400 and nothing
\* further happens: no payments-provider retrieval and no identity-provider
\* call is made in that invocation
C1_InvalidSignatureStops ==
  \A i \in Procs :
    (Started(i) /\ req[i].method = "POST" /\ ~req[i].sigValid) =>
      /\ ~Made(i, RetrievalOps \cup IdentityOps)
      /\ pc[i] \in {"start", "verify", "done"}
      /\ pc[i] = "done" => /\ Len(resp[i]) = 1
                           /\ resp[i][1].status = 400

C1_Witness ==
  \E i \in Procs :
    /\ req[i].method = "POST" /\ ~req[i].sigValid
    /\ pc[i] = "done" /\ Len(resp[i]) = 1 /\ resp[i][1].status = 400
    /\ req[i].event.type = HandledType(req[i].variant)

\* C2: in an invocation whose get-user-by-email returned a user, no
\* create-account and no create-user call is made, create-entitlement is
\* issued with the tenantId and userId of that existing user, and once it
\* has succeeded the response is 200; in both variants, on every delivery
C2_ExistingUserReused ==
  \A i \in Procs :
    LookupFound(i) =>
      /\ ~Made(i, {"createFronteggAccount", "createFronteggUser"})
      /\ \A k \in CallsOf(i, "createEntitlement") :
           /\ \E u \in users :
                /\ u.email = loc[i].email
                /\ calls[i][k].args.payload.tenantId = u.tenantId
                /\ calls[i][k].args.payload.userId = u.id
           /\ calls[i][k].result = "ok" => Answered(i, 200, Received)

\* C3: on the not-found path the handler calls create-account, create-user
\* (inside the tenant create-account returned) and create-entitlement (for
\* that tenant and the new user's id), in this order and each once, and
\* then answers 200 {received:true}
C3_NewCustomerProvisioned ==
  \A i \in Procs :
    LookupNotFound(i) =>
      LET lookup == CHOOSE k \in CallsOf(i, "getUserByEmail") : TRUE
          chain == SubSeq(calls[i], lookup + 1, Len(calls[i]))
          ops == [k \in DOMAIN chain |-> chain[k].op]
          expected == <<"createFronteggAccount", "createFronteggUser", "createEntitlement">>
      IN
      /\ Len(ops) <= 3
      /\ ops = SubSeq(expected, 1, Len(ops))
      /\ Len(chain) >= 2 =>
           chain[2].args.tenantHeader = Val(chain[1].data).tenantId
      /\ Len(chain) = 3 =>
           /\ chain[3].args.payload.tenantId = Val(chain[1].data).tenantId
           /\ chain[3].args.payload.userId = Val(chain[2].data).id
           /\ chain[3].result = "ok" => Answered(i, 200, Received)

\* the price id the event carries, undefined when its place is missing
EventPriceId(r) ==
  LET object == Val(r.event.object)
  IN IF r.variant = "schedule"
       THEN IF /\ Truthy(object.phases)
               /\ Len(Val(object.phases)) > 0
               /\ Truthy(Val(Val(object.phases)[1]).items)
               /\ Len(Val(Val(Val(object.phases)[1]).items)) > 0
              THEN Val(Val(Val(Val(object.phases)[1]).items)[1]).price
              ELSE Undefined
       ELSE IF /\ IsObject(object.line_items)
               /\ Len(Val(Val(object.line_items).data)) > 0
              THEN Val(Val(Val(Val(object.line_items).data)[1]).price).id
              ELSE Undefined

\* a handled event that lacks nothing but an entry in the plan table
UnmappedPlan(i) ==
  /\ Handled(i)
  /\ Truthy(EventPriceId(req[i]))
  /\ ~Truthy(PlanLookup(req[i].variant, EventPriceId(req[i])))
  /\ req[i].variant = "schedule" => Truthy(Val(req[i].event.object).current_period_end)
  /\ req[i].variant = "checkout" => IsObject(Val(req[i].event.object).customer_details)

\* C4: a valid POST of the handled type whose price id has no entry in the
\* plan table is answered 200 {received:true, error:'Internal mapping error'}
\* and no identity-provider call is made
C4_UnmappedPlanAcknowledged ==
  \A i \in Procs :
    UnmappedPlan(i) =>
      /\ ~Made(i, IdentityOps)
      /\ Ended(i) => Answered(i, 200, ReceivedError("Internal mapping error"))

\* an identity-provider call of invocation i failed fatally
FatalStep(i) ==
  \E k \in DOMAIN calls[i] :
    /\ calls[i][k].op \in IdentityOps
    /\ calls[i][k].result \in {"throw", "500", "network"}

\* C5: a failed authenticate, lookup (other than not-found), create-account,
\* create-user or create-entitlement is answered 500, never 200; a handled
\* event is answered 200 {received:true} only after the create-entitlement
\* call of the same invocation succeeded; and when create-entitlement fails
\* on the not-found path, create-account and create-user were each called
\* exactly once before it
C5_FatalStepsNotAcknowledged ==
  \A i \in Procs :
    /\ FatalStep(i) => Answered(i, 500, SyncFailed)
    /\ (Handled(i) /\ Len(resp[i]) > 0 /\ resp[i][1] = Response(200, Received)) =>
         /\ Len(calls[i]) > 0
         /\ calls[i][Len(calls[i])].op = "createEntitlement"
         /\ calls[i][Len(calls[i])].result = "ok"
    /\ \A k \in CallsOf(i, "createEntitlement") :
         (calls[i][k].result = "throw" /\ LookupNotFound(i)) =>
           /\ Cardinality(CallsOf(i, "createFronteggAccount")) = 1
           /\ Cardinality(CallsOf(i, "createFronteggUser")) = 1
           /\ \A j \in CallsOf(i, "createFronteggAccount") \cup CallsOf(i, "createFronteggUser") :
                j < k

C5_Witness ==
  \E i \in Procs :
    /\ req[i].variant = "schedule"
    /\ LookupNotFound(i)
    /\ \E k \in CallsOf(i, "createEntitlement") : calls[i][k].result = "throw"
    /\ Answered(i, 500, SyncFailed)

\* a payments-provider retrieval of invocation i was rejected
RetrievalRejected(i) ==
  \E k \in DOMAIN calls[i] :
    calls[i][k].op \in RetrievalOps /\ calls[i][k].result = "throw"

\* a required part of the event is absent: phases, items of the first phase,
\* line items, customer details, the email or the expiry timestamp
MissingPart(i) ==
  LET object == Val(req[i].event.object)
  IN
  /\ Handled(i)
  /\ \/ ~Truthy(EventPriceId(req[i]))
     \/ /\ req[i].variant = "schedule"
        /\ ~Truthy(object.current_period_end)
     \/ /\ req[i].variant = "checkout"
        /\ \/ ~IsObject(object.customer_details)
           \/ ~Truthy(Val(object.customer_details).email)
     \/ \E k \in CallsOf(i, "customers.retrieve") :
          calls[i][k].result = "ok" /\ ~Truthy(Val(calls[i][k].data).email)
     \/ \E k \in CallsOf(i, "subscriptions.retrieve") :
          calls[i][k].result = "ok" /\ ~Truthy(Val(calls[i][k].data).current_period_end)

\* C6: a verified event of the handled type that lacks a required part is
\* answered 200 with received:true and an error reason, without any
\* identity-provider call, and never ends in an unhandled fault or a 500;
\* in both variants
C6_ExtractionTotal ==
  \A i \in Procs :
    (MissingPart(i) /\ ~RetrievalRejected(i)) =>
      /\ ~Made(i, IdentityOps)
      /\ Ended(i) =>
           /\ pc[i] = "done"
           /\ Len(resp[i]) = 1
           /\ resp[i][1].status = 200
           /\ resp[i][1].body[1] = "json"
           /\ DOMAIN resp[i][1].body[2] = {"received", "error"}
           /\ resp[i][1].body[2].received

\* C7: every invocation ends by sending exactly one response, whose status
\* is 200, 400, 405 or 500, whatever the outbound calls do; no exception
\* leaves the handler without a response
C7_ExactlyOneResponse ==
  \A i \in Procs :
    /\ Running(i) => resp[i] = <<>>
    /\ Ended(i) =>
         /\ pc[i] = "done"
         /\ Len(resp[i]) = 1
         /\ resp[i][1].status \in {200, 400, 405, 500}

\* C8: a request whose method is not POST is answered 405 and nothing else
\* happens: the body is not read, the signature is not verified, no call
\* is made
C8_MethodNotAllowed ==
  \A i \in Procs :
    (Started(i) /\ req[i].method # "POST") =>
      /\ calls[i] = <<>>
      /\ pc[i] \in {"start", "done"}
      /\ pc[i] = "done" => /\ Len(resp[i]) = 1
                           /\ resp[i][1].status = 405

C8_Witness ==
  \E i \in Procs :
    /\ req[i].method # "POST"
    /\ req[i].sigValid
    /\ Answered(i, 405, Text("Method Not Allowed"))

\* the documented precedence: cancel_at > canceled_at > current_phase.end_date
DocumentedExpiry(schedule) ==
  IF Truthy(schedule.cancel_at) THEN schedule.cancel_at
  ELSE IF Truthy(schedule.canceled_at) THEN schedule.canceled_at
  ELSE Val(schedule.current_phase).end_date

\* C9: in the schedule variant, when the schedule carries a cancellation
\* timestamp and a phase end, the expiration date sent with
\* create-entitlement is derived from the cancellation timestamp
C9_ExpiryPrecedence ==
  \A i \in Procs :
    (Started(i) /\ req[i].variant = "schedule") =>
      \A k \in CallsOf(i, "createEntitlement") :
        LET schedule == Val(req[i].event.object)
        IN (Truthy(schedule.cancel_at) \/ Truthy(schedule.canceled_at)) =>
             calls[i][k].args.payload.expirationDate =
               ValidUntil(DocumentedExpiry(schedule))

\* the accounts created for an email
AccountsFor(e) == SelectSeq(tenants, LAMBDA t : t.name = <<"name", Val(e), "'s Account">>)
HasUser(e) == \E u \in users : u.email = e

\* C10 as claimed: over sequential deliveries and redeliveries at most one
\* create-account call succeeds for an email
C10_OneAccountPerEmail ==
  \A e \in Emails : Len(AccountsFor(e)) <= 1

\* a delivery calls create-account at most once, and at most one account of
\* an email holds a user
C10_State ==
  /\ \A i \in Procs : Cardinality(CallsOf(i, "createFronteggAccount")) <= 1
  /\ \A e \in Emails :
       Cardinality({k \in DOMAIN tenants :
                      \E u \in users : u.email = e /\ u.tenantId = tenants[k].tenantId}) <= 1

\* no account is created for an email that has a user
C10_Step ==
  \A e \in Emails : HasUser(e) => AccountsFor(e)' = AccountsFor(e)

\* C10 (amended): each delivery makes at most one create-account call, and
\* once create-user has succeeded for an email no delivery creates an
\* account for it, so at most one account of the email holds a user
C10_NoAccountOnceUserExists == []C10_State /\ [][C10_Step]_vars

C10_Witness ==
  /\ Len(AccountsFor(EmailA)) = 2
  /\ HasUser(EmailA)
  /\ \E i \in Procs : loc[i].email = EmailA /\ LookupFound(i) /\ pc[i] = "done"

\* the lookup of invocation i returned a body without id and tenantId
LookupMalformed(i) ==
  \E k \in CallsOf(i, "getUserByEmail") :
    calls[i][k].result = "200" /\ DOMAIN Val(calls[i][k].data) # {"id", "tenantId", "email"}

\* the lookup of invocation i failed otherwise than by not-found
LookupFailed(i) ==
  \E k \in CallsOf(i, "getUserByEmail") : calls[i][k].result \in {"500", "network"}

Provisioning == {"createFronteggAccount", "createFronteggUser"}

\* C11 as claimed: create-account and create-user are called only after the
\* lookup failed with 404; after any other lookup failure, a malformed user
\* record included, no create-account, create-user or create-entitlement
\* call is made and the answer is 500
C11_LookupBranching ==
  \A i \in Procs :
    /\ Made(i, Provisioning) => LookupNotFound(i)
    /\ (LookupFailed(i) \/ LookupMalformed(i)) =>
         /\ ~Made(i, Provisioning \cup {"createEntitlement"})
         /\ Ended(i) => Answered(i, 500, SyncFailed)

\* C11 (amended): create-account and create-user are called only after the
\* lookup failed with 404; after a lookup that failed with another status
\* or without a response no create-account, create-user or
\* create-entitlement call is made and the answer is 500.  A 200 whose body
\* lacks id and tenantId is not a failure for the handler.
C11_ProvisionOnlyOnNotFound ==
  \A i \in Procs :
    /\ Made(i, Provisioning) => LookupNotFound(i)
    /\ LookupFailed(i) =>
         /\ ~Made(i, Provisioning \cup {"createEntitlement"})
         /\ Answered(i, 500, SyncFailed)

C11_Witness ==
  \E i \in Procs :
    /\ \E k \in CallsOf(i, "getUserByEmail") : calls[i][k].result = "network"
    /\ loc[i].email = EmailA
    /\ Answered(i, 500, SyncFailed)

\* the identity-provider calls of invocation i, in the order they were made
IdentityCalls(i) == SelectSeq(calls[i], LAMBDA c : c.op \in IdentityOps)

IsPrefix(s, t) == Len(s) <= Len(t) /\ s = SubSeq(t, 1, Len(s))

\* C12: the identity-provider calls of an invocation are made one after the
\* other in the order authenticate, get-user-by-email, [create-account,
\* create-user,] create-entitlement, and after a call that failed (other
\* than the lookup's not-found) no later call is made in that invocation
C12_SequentialOrder ==
  \A i \in Procs :
    LET made == IdentityCalls(i)
        ops == [k \in DOMAIN made |-> made[k].op]
    IN
    /\ \/ IsPrefix(ops, <<"getFronteggToken", "getUserByEmail", "createEntitlement">>)
       \/ IsPrefix(ops, <<"getFronteggToken", "getUserByEmail", "createFronteggAccount",
                          "createFronteggUser", "createEntitlement">>)
    /\ \A k \in DOMAIN made :
         made[k].result \in {"throw", "500", "network"} => k = Len(made)
    /\ \A k \in DOMAIN calls[i] :
         (calls[i][k].op \in IdentityOps /\ calls[i][k].result \in {"throw", "500", "network"})
           => k = Len(calls[i])

C12_Witness ==
  \E i \in Procs :
    /\ Len(calls[i]) > 0
    /\ calls[i][Len(calls[i])].op = "createFronteggAccount"
    /\ calls[i][Len(calls[i])].result = "throw"
    /\ Answered(i, 500, SyncFailed)

(***************************************************************************)
(* Concurrent deliveries: the transport starts an invocation of handler    *)
(* while others are still awaiting, and the clock runs between the steps.  *)
(***************************************************************************)
\* the deliveries that race: one subscription_schedule.created event,
\* delivered more than once
DuplicateDeliveries ==
  {r \in Requests :
     /\ r.method = "POST" /\ r.sigValid /\ r.variant = "schedule"
     /\ r.event = Schedule(OnePhase(PriceSchedule), Undefined, Undefined, TPeriodEnd)}

\* the customer of the racing deliveries
RacingCustomers == {c \in Customers : Prop(c, "email") = EmailA /\ Truthy(Prop(c, "name"))}

\* a delivery arrives while at most one other invocation is running
DeliverConcurrently(i, r) ==
  /\ deliveries < MaxDeliveries
  /\ pc[i] = "idle"
  /\ \A j, k \in Procs : (Running(j) /\ Running(k)) => j = k
  /\ pc' = [pc EXCEPT ![i] = "start"]
  /\ req' = [req EXCEPT ![i] = r]
  /\ loc' = [loc EXCEPT ![i] = NoLocals]
  /\ calls' = [calls EXCEPT ![i] = <<>>]
  /\ resp' = [resp EXCEPT ![i] = <<>>]
  /\ now' = now + 1
  /\ deliveries' = deliveries + 1
  /\ UNCHANGED world

\* Date.now() moves on while invocations await; the clock is read by
\* createFronteggAccount only, so it is moved only between two readings
Tick ==
  /\ \E i \in Procs : pc[i] = "createAccount"
  /\ \E k \in DOMAIN tenants : tenants[k].tenantId = NewTenantId(EmailA, now)
  /\ now' = now + 1
  /\ UNCHANGED <<pc, req, loc, calls, resp, world, deliveries>>

NextConcurrent ==
  \/ \E i \in Procs, r \in DuplicateDeliveries : DeliverConcurrently(i, r)
  \/ Tick
  \/ \E i \in Procs : Receive(i)
  \/ \E i \in Procs : VerifyEvent(i)
  \/ \E i \in Procs, c \in RacingCustomers : RetrieveCustomer(i, TRUE, c)
  \/ \E i \in Procs : RetrieveCustomer(i, FALSE, Undefined)
  \/ \E i \in Procs, ok \in BOOLEAN : Authenticate(i, ok)
  \/ \E i \in Procs, o \in {"200", "404", "500", "network"}, u \in UserBodies : Lookup(i, o, u)
  \/ \E i \in Procs, ok \in BOOLEAN : CreateAccount(i, ok)
  \/ \E i \in Procs, ok \in BOOLEAN : CreateUser(i, ok)
  \/ \E i \in Procs, ok \in BOOLEAN : Entitle(i, ok)

SpecConcurrent == Init /\ [][NextConcurrent]_vars

\* invocation i has had an account created for email e
CreatedAccount(i, e) ==
  \E k \in CallsOf(i, "createFronteggAccount") :
    /\ calls[i][k].result = "ok"
    /\ calls[i][k].args.payload.name = <<"name", Val(e), "'s Account">>

\* C13: nothing excludes two concurrent invocations for one email from both
\* creating an account: an invocation that stands before create-account
\* after a not-found lookup can have its account created although another
\* invocation has already had one created for that email, and when two
\* invocations have both had one created the identity provider holds two
\* accounts for the email
C13_NoMutualExclusion ==
  \A i \in Procs : \A j \in Procs \ {i} :
    /\ (pc[i] = "createAccount" /\ LookupNotFound(i) /\ CreatedAccount(j, loc[i].email))
         => ENABLED CreateAccount(i, TRUE)
    /\ \A e \in Emails :
         (CreatedAccount(i, e) /\ CreatedAccount(j, e)) => Len(AccountsFor(e)) >= 2

\* both invocations running at once, both lookups not-found, two accounts
\* with different tenantIds for the one email, which still has no user
C13_Witness ==
  \E i \in Procs : \E j \in Procs \ {i} :
    /\ LookupNotFound(i) /\ LookupNotFound(j)
    /\ pc[i] = "createUser" /\ pc[j] = "createUser"
    /\ loc[i].email = EmailA /\ loc[j].email = EmailA
    /\ CreatedAccount(i, EmailA) /\ CreatedAccount(j, EmailA)
    /\ loc[i].tenantId # loc[j].tenantId
    /\ ~HasUser(EmailA)

\* the bearer token getFronteggToken returned to invocation i
IssuedToken(i) ==
  LET k == CHOOSE k \in CallsOf(i, "getFronteggToken") : TRUE
  IN calls[i][k].data

\* the ISO date of the expiry timestamp the variant extracts: from the
\* schedule in one variant, from the retrieved subscription in the other
ExtractedValidUntil(i) ==
  IF req[i].variant = "schedule"
    THEN ValidUntil(ScheduleExpiry(Val(req[i].event.object)))
    ELSE LET k == CHOOSE k \in CallsOf(i, "subscriptions.retrieve") : TRUE
         IN ValidUntil(Val(calls[i][k].data).current_period_end)

\* C14: every create-entitlement request carries the resolved tenantId and
\* userId, the plan table's feature id for the event's price id, the ISO
\* date of the extracted expiry, and the bearer token this invocation's
\* authenticate step obtained; every get-user-by-email, create-account and
\* create-user call carries that same token
C14_EntitlementRequestContent ==
  \A i \in Procs :
    /\ \A k \in CallsOf(i, "createEntitlement") :
         LET request == calls[i][k].args
         IN /\ request.payload.tenantId = loc[i].tenantId
            /\ request.payload.userId = loc[i].userId
            /\ request.payload.planId = PlanLookup(req[i].variant, EventPriceId(req[i]))
            /\ request.payload.expirationDate = ExtractedValidUntil(i)
            /\ request.bearer = IssuedToken(i)
    /\ \A k \in DOMAIN calls[i] :
         calls[i][k].op \in {"getUserByEmail", "createFronteggAccount", "createFronteggUser"}
           => calls[i][k].args.bearer = IssuedToken(i)

\* the same, of the invocations of the subscription_schedule.created variant
C14_ScheduleVariantOnly ==
  (\A i \in Procs : Started(i) => req[i].variant = "schedule")
    => C14_EntitlementRequestContent

\* C15: within one invocation each of the five identity operations is
\* requested at most once, whether it succeeds or fails; a failed call is
\* not attempted again
C15_NoRetry ==
  \A i \in Procs : \A op \in IdentityOps : Cardinality(CallsOf(i, op)) <= 1

\* an invocation that ended after its create-user call failed
C15_Witness ==
  \E i \in Procs :
    /\ Ended(i)
    /\ \E k \in CallsOf(i, "createFronteggUser") : calls[i][k].result = "throw"
    /\ \E k \in CallsOf(i, "getFronteggToken") : calls[i][k].result = "ok"

(***************************************************************************)
(* Redelivery: the sender delivers one event and delivers it again after   *)
(* every delivery that was not acknowledged, for as long as it takes.      *)
(***************************************************************************)
\* valid deliveries of a handled event with a mapped price id
LiveRequests ==
  {r \in Requests :
     /\ r.method = "POST" /\ r.sigValid
     /\ r.event \in {Schedule(OnePhase(PriceSchedule), Undefined, Undefined, TPeriodEnd),
                     Session(Obj([email |-> EmailA, name |-> Str("Ann")]),
                             OneLineItem(PriceCheckout1))}
     /\ r.event.type = HandledType(r.variant)}

\* the customers and subscriptions such an event refers to
LiveCustomers == {c \in Customers : Truthy(Prop(c, "email"))}
LiveSubscriptions == {s \in Subscriptions : Truthy(Prop(s, "current_period_end"))}

\* outbound calls can fail during the first MaxDeliveries - 1 deliveries
\* and succeed from then on whenever the request allows it
MayFail == deliveries < MaxDeliveries

\* the delivery was not acknowledged: a 500, or no response at all
NotAcknowledged(i) ==
  \/ pc[i] = "fault"
  \/ pc[i] = "done" /\ resp[i] # <<>> /\ resp[i][Len(resp[i])].status = 500

\* the sender delivers the same request again; deliveries beyond
\* MaxDeliveries are not counted and the clock is not moved for them
Redeliver(i) ==
  /\ NotAcknowledged(i)
  /\ pc' = [pc EXCEPT ![i] = "start"]
  /\ loc' = [loc EXCEPT ![i] = NoLocals]
  /\ calls' = [calls EXCEPT ![i] = <<>>]
  /\ resp' = [resp EXCEPT ![i] = <<>>]
  /\ deliveries' = IF MayFail THEN deliveries + 1 ELSE deliveries
  /\ now' = IF MayFail THEN now + 1 ELSE now
  /\ UNCHANGED <<req, world>>

NextLive ==
  \/ \E i \in Procs, r \in LiveRequests : deliveries = 0 /\ Deliver(i, r)
  \/ \E i \in Procs : Redeliver(i)
  \/ \E i \in Procs : Receive(i)
  \/ \E i \in Procs : VerifyEvent(i)
  \/ \E i \in Procs, c \in LiveCustomers : RetrieveCustomer(i, TRUE, c)
  \/ \E i \in Procs : MayFail /\ RetrieveCustomer(i, FALSE, Undefined)
  \/ \E i \in Procs, s \in LiveSubscriptions : RetrieveSubscription(i, TRUE, s)
  \/ \E i \in Procs : MayFail /\ RetrieveSubscription(i, FALSE, Undefined)
  \/ \E i \in Procs, ok \in BOOLEAN : (ok \/ MayFail) /\ Authenticate(i, ok)
  \/ \E i \in Procs, o \in {"200", "404", "500", "network"}, u \in users :
       (o \in {"200", "404"} \/ MayFail) /\ Lookup(i, o, u)
  \/ \E i \in Procs, ok \in BOOLEAN : (ok \/ MayFail) /\ CreateAccount(i, ok)
  \/ \E i \in Procs, ok \in BOOLEAN : (ok \/ MayFail) /\ CreateUser(i, ok)
  \/ \E i \in Procs, ok \in BOOLEAN :
       (ok \/ MayFail \/ ~ENABLED Entitle(i, TRUE)) /\ Entitle(i, ok)

\* the platform runs a started handler to its end and the sender does
\* redeliver: every step that stays possible is eventually taken
SpecLive == Init /\ [][NextLive]_vars /\ WF_vars(NextLive)

\* a delivery made a successful create-entitlement call for the customer's
\* tenant and user and was answered 200 {received: true}
Recovered ==
  \E i \in Procs :
    /\ Answered(i, 200, Received)
    /\ \E k \in CallsOf(i, "createEntitlement") :
         /\ calls[i][k].result = "ok"
         /\ \E u \in users :
              /\ u.email = loc[i].email
              /\ calls[i][k].args.payload.userId = u.id
              /\ calls[i][k].args.payload.tenantId = u.tenantId

\* C16: when the sender redelivers after every 500 and the outbound calls
\* eventually succeed, some delivery eventually makes a successful
\* create-entitlement call for the customer and is answered 200
\* {received: true}, and no redelivery follows
C16_RecoveryByRedelivery == <>[]Recovered

\* the same, of the subscription_schedule.created variant
C16_ScheduleVariantOnly ==
  [](\A i \in Procs : Started(i) => req[i].variant = "schedule") => <>[]Recovered

\* C17: a POST with a valid signature whose event type is not the one the
\* variant handles is answered 200 {received: true}; the handler goes from
\* the signature check straight to that answer and makes no
\* payments-provider retrieval and no identity-provider call
C17_UnhandledTypeAcknowledged ==
  \A i \in Procs :
    (ValidPost(i) /\ ~Handled(i)) =>
      /\ pc[i] \in {"start", "verify", "done"}
      /\ ~Made(i, RetrievalOps \cup IdentityOps)
      /\ pc[i] = "done" => Answered(i, 200, Received)

\* the checkout variant has answered a subscription_schedule.created event
C17_Witness ==
  \E i \in Procs :
    /\ ValidPost(i)
    /\ req[i].variant = "checkout"
    /\ req[i].event.type = "subscription_schedule.created"
    /\ Answered(i, 200, Received)

\* C18 as claimed: the tenantId is a function of the email alone, so the
\* accounts requested for one email carry one tenantId
C18_DeterministicTenantId ==
  \A k, l \in DOMAIN tenants :
    tenants[k].name = tenants[l].name => tenants[k].tenantId = tenants[l].tenantId

\* C18 amended: the tenantId is made of the sanitized email and the clock
\* reading of the call, so the accounts that sequential deliveries create,
\* for one email or not, carry different tenantIds
C18_TenantIdFromEmailAndClock ==
  /\ \A i \in Procs : \A k \in CallsOf(i, "createFronteggAccount") :
       calls[i][k].args.payload.tenantId = <<"tenant", Sanitize(Val(loc[i].email)), now>>
  /\ \A k, l \in DOMAIN tenants :
       k # l => tenants[k].tenantId # tenants[l].tenantId

\* a redelivery has had a second account created for the email of the first
C18_Witness ==
  \E k, l \in DOMAIN tenants :
    /\ k < l
    /\ tenants[k].name = tenants[l].name
    /\ tenants[k].tenantId[2] = tenants[l].tenantId[2]
    /\ tenants[k].tenantId[3] < tenants[l].tenantId[3]

\* the display name the event of invocation i carries: the retrieved
\* customer's in one variant, the session's customer_details' in the other
ExtractedName(i) ==
  IF req[i].variant = "schedule"
    THEN LET k == CHOOSE k \in CallsOf(i, "customers.retrieve") : TRUE
         IN Prop(calls[i][k].data, "name")
    ELSE Prop(Val(req[i].event.object).customer_details, "name")

NonEmptyName(n) == Tag(n) = "string" /\ Val(n) # ""

\* C19: every create-user request carries the display name of the event
\* when it is present and non-empty and 'New User' otherwise, and a
\* create-user call that succeeded with the placeholder is followed by the
\* entitlement step like any other
C19_DisplayNameFallback ==
  \A i \in Procs : \A k \in CallsOf(i, "createFronteggUser") :
    LET sent == calls[i][k].args.payload.name
    IN /\ sent = IF NonEmptyName(ExtractedName(i)) THEN ExtractedName(i)
                                                    ELSE Str("New User")
       /\ calls[i][k].result = "ok" => pc[i] \in {"entitle", "done"}

\* a customer without a name was provisioned and the delivery acknowledged
C19_Witness ==
  \E i \in Procs :
    /\ \E k \in CallsOf(i, "createFronteggUser") :
         calls[i][k].result = "ok" /\ calls[i][k].args.payload.name = Str("New User")
    /\ ~NonEmptyName(ExtractedName(i))
    /\ \E k \in CallsOf(i, "createEntitlement") : calls[i][k].result = "ok"
    /\ Answered(i, 200, Received)

====
